---------------------------- MODULE Spec2Model ----------------------------
(***************************************************************************)
(* A model of dvc-availability-alerts.py: the poll loop of main, the       *)
(* change detector check_availability, the filter pipeline of              *)
(* fetch_resort_info and the SQLite result store.                          *)
(*                                                                         *)
(* Python text is modelled as a sequence of one-character strings, so that *)
(* substring search and case folding are computed and not assumed.  A      *)
(* Python value is a tagged record: None, Str(text), Num(n), Bool(b),      *)
(* List(xs), PyDict(d), DateObj.                                           *)
(***************************************************************************)
EXTENDS Integers, Sequences, FiniteSets, TLC

\* ------------------------------------------------------------------ values

None == [t |-> "none"]
Str(s) == [t |-> "str", v |-> s]
Num(n) == [t |-> "int", v |-> n]
Bool(b) == [t |-> "bool", v |-> b]
List(xs) == [t |-> "list", v |-> xs]
PyDict(d) == [t |-> "dict", v |-> d]
\* what yaml.safe_load makes of an unquoted 2025-01-05: a datetime.date
DateObj == [t |-> "date"]

IsStr(x) == x.t = "str"

\* dict.get(key, default) on a dict modelled as a function
Get(d, k, default) == IF k \in DOMAIN d THEN d[k] ELSE default

\* a dict from a set of <<key, value>> pairs with distinct keys
Dict(pairs) == [k \in {p[1] : p \in pairs} |-> (CHOOSE p \in pairs : p[1] = k)[2]]

\* Python truthiness of a value that is None, a bool, a str or a list
Truthy(x) ==
    CASE x.t = "none" -> FALSE
      [] x.t = "bool" -> x.v
      [] OTHER -> Len(x.v) > 0

\* the outcome of a call: a returned value or a raised exception
Ret(x) == [raised |-> FALSE, v |-> x]
Raise(e) == [raised |-> TRUE, exc |-> e]

\* ------------------------------------------------------------------ text

UpperCase == <<"A","B","C","D","E","F","G","H","I","J","K","L","M",
               "N","O","P","Q","R","S","T","U","V","W","X","Y","Z">>
LowerCase == <<"a","b","c","d","e","f","g","h","i","j","k","l","m",
               "n","o","p","q","r","s","t","u","v","w","x","y","z">>

Lower(c) ==
    IF \E k \in 1..Len(UpperCase) : UpperCase[k] = c
    THEN LowerCase[CHOOSE k \in 1..Len(UpperCase) : UpperCase[k] = c]
    ELSE c

\* re.search of a literal pattern, case=False: pat occurs in s at some offset
ContainsFold(s, pat) ==
    \E off \in 0..(Len(s) - Len(pat)) :
        \A k \in 1..Len(pat) : Lower(s[off + k]) = Lower(pat[k])

\* Series.str.contains('|'.join(pats), case=False, na=False) on one cell:
\* a missing value gives False, an alternation matches if one branch does
StrContainsAny(cell, pats) ==
    /\ IsStr(cell)
    /\ \E k \in 1..Len(pats) : ContainsFold(cell.v, pats[k])

\* ------------------------------------------------------------------ dates

DigitChars == <<"0","1","2","3","4","5","6","7","8","9">>
IsDigit(c) == \E k \in 1..Len(DigitChars) : DigitChars[k] = c
DigitVal(c) == (CHOOSE k \in 1..Len(DigitChars) : DigitChars[k] = c) - 1

RECURSIVE ParseNum(_)
ParseNum(s) ==
    IF Len(s) = 0 THEN 0
    ELSE 10 * ParseNum(SubSeq(s, 1, Len(s) - 1)) + DigitVal(s[Len(s)])

AllDigits(s) == \A k \in 1..Len(s) : IsDigit(s[k])

IsLeap(y) == (y % 4 = 0 /\ y % 100 # 0) \/ y % 400 = 0
DaysInMonth(y, m) ==
    CASE m \in {4, 6, 9, 11} -> 30
      [] m = 2 -> IF IsLeap(y) THEN 29 ELSE 28
      [] OTHER -> 31

\* the ways text s splits as <year>-<month>-<day> under "%Y-%m-%d":
\* %Y is four digits, %m and %d are one or two digits, nothing may remain
DateSplits(s) ==
    {sp \in (1..2) \X (1..2) :
        /\ Len(s) = 4 + 1 + sp[1] + 1 + sp[2]
        /\ AllDigits(SubSeq(s, 1, 4))
        /\ s[5] = "-"
        /\ AllDigits(SubSeq(s, 6, 5 + sp[1]))
        /\ s[6 + sp[1]] = "-"
        /\ AllDigits(SubSeq(s, 7 + sp[1], Len(s)))}

\* a parse that checks the shape of the text and not the calendar
strptime_lenient(x) ==
    IF ~IsStr(x) THEN Raise("TypeError")
    ELSE IF DateSplits(x.v) = {} THEN Raise("ValueError")
    ELSE LET sp == CHOOSE q \in DateSplits(x.v) : TRUE
         IN Ret([y |-> ParseNum(SubSeq(x.v, 1, 4)),
                 m |-> ParseNum(SubSeq(x.v, 6, 5 + sp[1])),
                 d |-> ParseNum(SubSeq(x.v, 7 + sp[1], Len(x.v)))])

\* datetime.strptime(x, "%Y-%m-%d"): TypeError unless x is a str, ValueError
\* unless x matches the format and names a day of the calendar
strptime(x) ==
    IF ~IsStr(x) THEN Raise("TypeError")
    ELSE IF DateSplits(x.v) = {} THEN Raise("ValueError")
    ELSE LET sp == CHOOSE q \in DateSplits(x.v) : TRUE
             y == ParseNum(SubSeq(x.v, 1, 4))
             m == ParseNum(SubSeq(x.v, 6, 5 + sp[1]))
             d == ParseNum(SubSeq(x.v, 7 + sp[1], Len(x.v)))
         IN IF /\ y >= 1
               /\ m \in 1..12
               /\ d >= 1
               /\ d <= DaysInMonth(y, m)
            THEN Ret([y |-> y, m |-> m, d |-> d])
            ELSE Raise("ValueError")

\* the n lowest decimal digits of k, zero padded
RECURSIVE Pad(_, _)
Pad(k, n) ==
    IF n = 0 THEN <<>>
    ELSE Append(Pad(k \div 10, n - 1), DigitChars[(k % 10) + 1])

\* date.strftime("%Y%m%d")
strftime(dt) == Pad(dt.y, 4) \o Pad(dt.m, 2) \o Pad(dt.d, 2)

\* -------------------------------------------------------------- DataFrame

Columns == <<"ResortName", "RoomType", "ViewType", "Points", "Availability">>

\* entry.get("Availability", {}).get("availability"): a missing key gives
\* None; a value that is no dict (null) has no .get and raises
AvailabilityOf(entry) ==
    LET a == Get(entry, "Availability", PyDict(<<>>))
    IN IF a.t # "dict" THEN Raise("AttributeError")
       ELSE Ret(Get(a.v, "availability", None))

\* lines 58-66: one row per value of the JSON object, in its order
RowOf(entry) ==
    [c \in {Columns[k] : k \in 1..Len(Columns)} |->
        IF c = "Availability" THEN AvailabilityOf(entry).v
        ELSE Get(entry, c, None)]

\* the dtype pandas infers for the Points column: int64 when every value is
\* an integer, float64 (None becomes NaN) when integers and None mix,
\* object when every value is None
PointsDtype(rows) ==
    LET nums == {k \in 1..Len(rows) : rows[k]["Points"].t = "int"}
    IN IF nums = {} THEN "object"
       ELSE IF Cardinality(nums) = Len(rows) THEN "int64"
       ELSE "float64"

\* pd.DataFrame(resorts): a frame built from an empty list has no columns
DataFrame(resorts) ==
    [t |-> "df",
     columns |-> IF Len(resorts) = 0 THEN <<>> ELSE Columns,
     rows |-> resorts,
     points |-> PointsDtype(resorts)]

IsEmpty_never(df) == FALSE

\* DataFrame.empty
IsEmpty(df) == Len(df.rows) = 0

\* the decimal digits of a natural number
RECURSIVE Digits(_)
Digits(n) ==
    IF n < 10 THEN <<DigitChars[n + 1]>>
    ELSE Append(Digits(n \div 10), DigitChars[(n % 10) + 1])

\* how to_string prints one cell.  Text prints as itself and None as the
\* word None; Points prints by the column's dtype
Cell(df, c, x) ==
    CASE x.t = "none" /\ c = "Points" /\ df.points = "float64" -> <<"N","a","N">>
      [] x.t = "none" -> <<"N","o","n","e">>
      [] x.t = "int" /\ df.points = "float64" -> Digits(x.v) \o <<".","0">>
      [] x.t = "int" -> Digits(x.v)
      [] OTHER -> x.v

\* DataFrame.to_string(index=False), as its lines and each line as its
\* cells (column padding is left out): a header line and one line per row,
\* or the three lines pandas prints for a frame without rows
to_string(df) ==
    LET names == [k \in 1..Len(df.columns) |-> <<df.columns[k]>>]
    IN IF Len(df.rows) = 0
       THEN Str(<< <<<<"Empty DataFrame">>>>,
                   <<<<"Columns:">>>> \o names,
                   <<<<"Index: []">>>> >>)
       ELSE Str(<<names>> \o
                [r \in 1..Len(df.rows) |->
                    [k \in 1..Len(df.columns) |->
                        Cell(df, df.columns[k], df.rows[r][df.columns[k]])]])

\* ----------------------------------------------------------- the filters

\* line 79
exclude_keywords ==
    << <<"A","u","l","a","n","i">>,
       <<"B","e","a","c","h">>,
       <<"D","i","s","n","e","y","l","a","n","d">>,
       <<"H","i","l","t","o","n">>,
       <<"C","a","l","i","f","o","r","n","i","a","n">> >>

IsFull_present(row) == row["Availability"] # None

\* line 71: df[df["Availability"] == "Full"]
IsFull(row) == row["Availability"] = Str(<<"F","u","l","l">>)
\* (df[mask] keeps the rows the mask selects, in order, dtypes unchanged)
FilterAvailability(df) == [df EXCEPT !.rows = SelectSeq(df.rows, IsFull)]

\* a variant that keeps the first row of the room type only
FilterRoomType_first(df, room_type_filter) ==
    IF Truthy(room_type_filter)
    THEN LET kept == SelectSeq(df.rows,
                LAMBDA row : StrContainsAny(row["RoomType"], <<room_type_filter.v>>))
         IN [df EXCEPT !.rows = IF kept = <<>> THEN <<>> ELSE <<kept[1]>>]
    ELSE df

\* lines 74-75
FilterRoomType(df, room_type_filter) ==
    IF Truthy(room_type_filter)
    THEN [df EXCEPT !.rows = SelectSeq(df.rows,
            LAMBDA row : StrContainsAny(row["RoomType"], <<room_type_filter.v>>))]
    ELSE df

\* lines 78-81
FilterExclude(df, exclude_non_wdw) ==
    IF Truthy(exclude_non_wdw)
    THEN [df EXCEPT !.rows = SelectSeq(df.rows,
            LAMBDA row : ~StrContainsAny(row["ResortName"], exclude_keywords))]
    ELSE df

\* lines 84-86
FilterResortName(df, resort_name_filter) ==
    IF Truthy(resort_name_filter)
    THEN [df EXCEPT !.rows = SelectSeq(df.rows,
            LAMBDA row : StrContainsAny(row["ResortName"], resort_name_filter.v))]
    ELSE df

\* the inclusion filter skipped when the exclusion filter is on
FilterPipeline_elif(df, room_type_filter, exclude_non_wdw, resort_name_filter) ==
    IF Truthy(exclude_non_wdw)
    THEN FilterExclude(FilterRoomType(FilterAvailability(df), room_type_filter),
                       exclude_non_wdw)
    ELSE FilterResortName(FilterRoomType(FilterAvailability(df), room_type_filter),
                          resort_name_filter)

\* lines 70-88, in the order of the code
FilterPipeline(df, room_type_filter, exclude_non_wdw, resort_name_filter) ==
    FilterResortName(
        FilterExclude(
            FilterRoomType(FilterAvailability(df), room_type_filter),
            exclude_non_wdw),
        resort_name_filter)

\* ----------------------------------------------------- fetch_resort_info

Text1(w) == Str(<<w>>)

\* lines 40-88.  http is what requests.get does for the URL of line 49: it
\* raises, or it returns a response with a status code and a body that
\* response.json() parses (to the values of the JSON object, in order) or
\* rejects
fetch_resort_info(start_date, end_date, room_type_filter, exclude_non_wdw, resort_name_filter, http) ==
    LET s == strptime(start_date)
        e == strptime(end_date)
    IN  IF s.raised THEN
            (IF s.exc = "ValueError"
             THEN Ret(Text1("Invalid date format. Please use YYYY-mm-dd."))
             ELSE s)
        ELSE IF e.raised THEN
            (IF e.exc = "ValueError"
             THEN Ret(Text1("Invalid date format. Please use YYYY-mm-dd."))
             ELSE e)
        ELSE IF http.kind = "exception" THEN Raise("ConnectionError")
        ELSE IF http.status_code # 200 THEN
            Ret(Str(<<"Error fetching data: ">> \o Digits(http.status_code)))
        ELSE IF http.json.raised THEN http.json
        ELSE LET data == http.json.v
             IN IF \E k \in 1..Len(data) : AvailabilityOf(data[k]).raised
                THEN Raise("AttributeError")
                ELSE LET df == DataFrame([k \in 1..Len(data) |-> RowOf(data[k])])
                     IN IF Len(df.columns) = 0 THEN Raise("KeyError")
                        ELSE Ret(FilterPipeline(df, room_type_filter,
                                                exclude_non_wdw, resort_name_filter))

\* line 49: the query the dates are sent in
RequestOf(start_date, end_date) ==
    LET s == strptime(start_date)
        e == strptime(end_date)
    IN IF s.raised \/ e.raised THEN None
       ELSE PyDict([arrivalDate |-> strftime(s.v), departureDate |-> strftime(e.v)])

\* ------------------------------------------------------------- the store

\* lines 13-23: the table alerts of a new database file, as its set of rows
initialize_db == {}

fetch_last_result_miss(rows, alert_name) == None

\* lines 25-29: SELECT ... WHERE alert_name = ?, fetchone
fetch_last_result(rows, alert_name) ==
    LET hit == {r \in rows : r.alert_name = alert_name}
    IN IF hit = {} THEN None ELSE (CHOOSE r \in hit : TRUE).last_result

\* INSERT OR IGNORE: an existing row keeps its value
update_last_result_ignore(rows, alert_name, result_str) ==
    IF \E r \in rows : r.alert_name = alert_name
    THEN rows
    ELSE rows \cup {[alert_name |-> alert_name, last_result |-> result_str]}

\* a plain INSERT into a table without the key
update_last_result_append(rows, alert_name, result_str) ==
    rows \cup {[alert_name |-> alert_name, last_result |-> result_str]}

\* a plain UPDATE: no row is made for a name that has none
update_last_result_update_only(rows, alert_name, result_str) ==
    {IF r.alert_name = alert_name
     THEN [r EXCEPT !.last_result = result_str] ELSE r : r \in rows}

\* UPDATE without the WHERE: every row takes the value
update_last_result_all(rows, alert_name, result_str) ==
    {[r EXCEPT !.last_result = result_str] : r \in rows}
        \cup {[alert_name |-> alert_name, last_result |-> result_str]}

\* lines 31-38: INSERT ... ON CONFLICT(alert_name) DO UPDATE
update_last_result(rows, alert_name, result_str) ==
    IF \E r \in rows : r.alert_name = alert_name
    THEN {IF r.alert_name = alert_name
          THEN [r EXCEPT !.last_result = result_str] ELSE r : r \in rows}
    ELSE rows \cup {[alert_name |-> alert_name, last_result |-> result_str]}

MessageOf_unnamed(alert_name, result_str) ==
    <<"Availability found for alert '", Text1("Unnamed"), "':\n", result_str>>

\* line 122
MessageOf(alert_name, result_str) ==
    <<"Availability found for alert '", alert_name, "':\n", result_str>>

\* line 127
NoAvailabilityLine(alert_name) ==
    <<"No availability found for alert '", alert_name, "'.">>

\* ------------------------------------------------------------ the inputs

\* the longest JSON object a fetch returns
MaxRecords == 3

Absent == [t |-> "absent"]
Unset == [t |-> "unset"]

\* a dict of the keys that are given a value
DictOf(pairs) == Dict({p \in pairs : p[2] # Absent})

Poly == <<"P","o","l","y">>
Aulani == <<"A","U","L","A","N","I">>
Riviera == <<"R","i","v","i","e","r","a">>
Studio == <<"S","t","u","d","i","o">>
OneBedroom == <<"1"," ","B","e","d","r","o","o","m">>
Full == <<"F","u","l","l">>
Partial == <<"P","a","r","t","i","a","l">>

Entry(name, room, view, points, availability) ==
    DictOf({<<"ResortName", name>>, <<"RoomType", room>>, <<"ViewType", view>>,
            <<"Points", points>>, <<"Availability", availability>>})

Status(a) == PyDict([availability |-> Str(a)])

\* the entries the remote service answers with
Entries ==
    { Entry(Str(Poly), Str(Studio), Text1("Standard"), Num(20), Status(Full)),
      Entry(Str(Aulani), Str(Studio), Text1("Ocean"), Num(30), Status(Full)),
      Entry(Str(Riviera), Str(OneBedroom), Text1("Standard"), Num(40), Status(Full)),
      Entry(Absent, None, None, Num(20), Status(Full)),
      Entry(Str(Poly), Str(Studio), Text1("Lake"), None, Status(Partial)),
      Entry(Str(Poly), Str(Studio), Absent, Absent, Absent),
      Entry(Str(Riviera), Str(Studio), Text1("Lake"), Num(50),
            Status(<<"f","u","l","l">>)) }

\* an entry whose Availability is null
NullAvailability == Entry(Str(Poly), Str(Studio), None, Num(20), None)

Range(q) == {q[k] : k \in 1..Len(q)}

\* the sequences of at most n distinct members of S
RECURSIVE SeqsUpTo(_, _)
SeqsUpTo(S, n) ==
    IF n = 0 THEN {<<>>}
    ELSE LET shorter == SeqsUpTo(S, n - 1)
         IN shorter \cup
            UNION {{Append(q, x) : x \in S \ Range(q)} :
                      q \in {r \in shorter : Len(r) = n - 1}}

\* what requests.get and response.json() can do when the service holds the
\* entries S
ResponsesOver(S) ==
    {[kind |-> "exception"]}
    \cup {[kind |-> "response", status_code |-> 500, json |-> Raise("JSONDecodeError")],
          [kind |-> "response", status_code |-> 200, json |-> Raise("JSONDecodeError")],
          [kind |-> "response", status_code |-> 200, json |-> Ret(<<NullAvailability>>)]}
    \cup {[kind |-> "response", status_code |-> 200, json |-> Ret(d)] :
            d \in SeqsUpTo(S, MaxRecords)}

\* the entries served while the poll loop runs: two that are fully available
\* and one that is not and has no points
Served ==
    { Entry(Str(Poly), Str(Studio), Text1("Standard"), Num(20), Status(Full)),
      Entry(Str(Aulani), Str(Studio), Text1("Ocean"), Num(30), Status(Full)),
      Entry(Str(Poly), Str(Studio), Text1("Lake"), None, Status(Partial)) }

Responses == ResponsesOver(Served)

\* an alert definition of the configuration file, with the keys it gives
AlertDef(name, start_date, end_date, room_type, exclude_non_wdw, resort_names, pushover) ==
    DictOf({<<"name", name>>, <<"start_date", start_date>>,
            <<"end_date", end_date>>, <<"room_type", room_type>>,
            <<"exclude_non_wdw", exclude_non_wdw>>,
            <<"resort_names", resort_names>>, <<"pushover", pushover>>})

Arrival == Str(<<"2","0","2","5","-","0","1","-","0","5">>)
Departure == Str(<<"2","0","2","5","-","1","-","9">>)
NoSuchDay == Str(<<"2","0","2","5","-","0","2","-","3","0">>)
WrongFormat == Str(<<"0","1","/","0","5","/","2","0","2","5">>)

Pushover == PyDict([user_key |-> Text1("u"), api_token |-> Text1("t")])

studio == Str(<<"s","t","u","d","i","o">>)
wanted == List(<< <<"p","o","l","y">>, <<"a","u","l","a","n","i">> >>)
onlyPoly == List(<< <<"p","o","l","y">> >>)

\* one alert named Test, for every combination of the three optional filters,
\* each left out, given a value that counts as unset, or set
Filtered ==
    {AlertDef(Text1("Test"), Arrival, Departure, r, x, n, Pushover) :
        r \in {Absent, Str(<<>>), studio},
        x \in {Absent, Bool(FALSE), Bool(TRUE)},
        n \in {Absent, List(<<>>), wanted}}

Narrow(name, pushover) ==
    AlertDef(name, Arrival, Departure, studio, Bool(TRUE), onlyPoly, pushover)

BadDates ==
    {AlertDef(Text1("Bad"), s, e, Absent, Absent, Absent, Pushover) :
        s \in {Arrival, NoSuchDay, WrongFormat, DateObj},
        e \in {Departure, NoSuchDay}} \
    {AlertDef(Text1("Bad"), Arrival, Departure, Absent, Absent, Absent, Pushover)}

Wide(name, pushover) ==
    AlertDef(name, Arrival, Departure, studio, Bool(FALSE), Absent, pushover)

\* the configurations main is run on
Configs ==
    {[alerts |-> <<Wide(Text1("Test"), Pushover)>>],
     [alerts |-> <<Wide(Text1("Quiet"), Absent)>>],
     [alerts |-> <<Narrow(Text1("A"), Absent), Wide(Text1("B"), Pushover)>>],
     [alerts |-> <<Narrow(Text1("B"), Pushover), Narrow(Text1("B"), Pushover)>>],
     [alerts |-> <<Narrow(Absent, Pushover),
                   AlertDef(Absent, Arrival, Departure, Absent, Absent,
                            List(<< <<"a","u","l","a","n","i">> >>), Pushover)>>],
     [other |-> <<>>]}
    \cup {[alerts |-> <<a, Narrow(Text1("B"), Pushover)>>] : a \in BadDates}

\* --------------------------------------------------------------- the state

VARIABLES
    config,          \* main: the loaded configuration file
    conn,            \* main: the rows of table alerts
    pc,              \* where main is: "while", "for", "detect", "send", "sleep", "crashed"
    i,               \* main: the place in config["alerts"] of the for loop
    error,           \* the exception that ended the process, if one did
    alert_config,    \* check_availability: its argument
    http,            \* what the remote service did for this call
    request,         \* the query sent to it
    result,          \* check_availability: result
    result_str,      \* check_availability: result_str
    alert_name,      \* check_availability: alert_name
    last_result_str, \* check_availability: last_result_str
    message,         \* check_availability: message
    sent,            \* the send_pushover_alert calls of this call
    printed,         \* the lines this call printed
    prior,           \* history: the call before this one (same: it was of the same
                     \* alert and fetched the same data; changed: it stored a new
                     \* string; sent: the dispatches it made; name, str, steady:
                     \* its alert_name, result_str and steady)
    written,         \* history: the string last stored under each name, if any
    processed,       \* history: the alerts whose check has returned in this cycle
    undelivered,     \* history: under each name, the stored string whose dispatch
                     \* did not get through, if it is one
    computed,        \* history: the string the last check of each alert computed
    steady           \* history: this check computed the string the last check of
                     \* the same alert did

locals == <<alert_config, http, request, result, result_str, alert_name,
            last_result_str, message, sent, printed, prior>>
vars == <<config, conn, pc, i, error, alert_config, http, request, result,
          result_str, alert_name, last_result_str, message, sent, printed, prior,
          written, processed, undelivered, computed, steady>>

alerts == Get(config, "alerts", <<>>)

\* a variant whose default differs between alerts with and without a room type
NameOf_by_room(ac) ==
    Get(ac, "name", IF "room_type" \in DOMAIN ac THEN Text1("Unnamed room")
                    ELSE Text1("Unnamed"))

\* line 112
NameOf(ac) == Get(ac, "name", Text1("Unnamed"))

HasPushover_always(ac) == TRUE

\* line 124
HasPushover(ac) == "pushover" \in DOMAIN ac

\* the names the configurations use
Names == {NameOf(a) : a \in UNION {Range(Get(c, "alerts", <<>>)) : c \in Configs}}

\* lines 130-140: the configuration is loaded and the database opened
Init ==
    /\ config \in Configs
    /\ conn = initialize_db
    /\ pc = "while"
    /\ i = 0
    /\ error = "none"
    /\ alert_config = Unset
    /\ http = Unset
    /\ request = Unset
    /\ result = Unset
    /\ result_str = Unset
    /\ alert_name = Unset
    /\ last_result_str = Unset
    /\ message = Unset
    /\ sent = <<>>
    /\ printed = <<>>
    /\ prior = [same |-> FALSE, changed |-> FALSE, sent |-> 0, name |-> Unset,
                str |-> Unset, steady |-> FALSE]
    /\ written = [n \in Names |-> None]
    /\ processed = <<>>
    /\ undelivered = [n \in Names |-> None]
    /\ computed = [k \in 1..Len(alerts) |-> Unset]
    /\ steady = FALSE

\* an exception nothing catches ends the process
Crash(exc) ==
    /\ pc' = "crashed"
    /\ error' = exc
    /\ i' = i
    /\ processed' = processed

\* check_availability returns and the for loop moves on
Return ==
    /\ pc' = "for"
    /\ error' = error
    /\ i' = i + 1
    /\ processed' = Append(processed, alerts[i])

\* lines 143-145: a cycle begins
WhileStep ==
    /\ pc = "while"
    /\ pc' = "for"
    /\ i' = 1
    /\ processed' = <<>>
    /\ UNCHANGED <<config, conn, error, written, undelivered, computed, steady>>
    /\ UNCHANGED locals

\* line 145, after the last alert
ForEnd ==
    /\ pc = "for"
    /\ i > Len(alerts)
    /\ pc' = "sleep"
    /\ UNCHANGED <<config, conn, error, i, written, processed, undelivered, computed,
                   steady>>
    /\ UNCHANGED locals

\* line 147
SleepStep ==
    /\ pc = "sleep"
    /\ pc' = "while"
    /\ UNCHANGED <<config, conn, error, i, written, processed, undelivered, computed,
                   steady>>
    /\ UNCHANGED locals

\* lines 96-102: the call of fetch_resort_info with the alert's settings
FetchFor(ac, h) ==
    fetch_resort_info(ac["start_date"], ac["end_date"],
                      Get(ac, "room_type", None),
                      Get(ac, "exclude_non_wdw", Bool(FALSE)),
                      Get(ac, "resort_names", None), h)

\* the locals of a call that has got no further than line 106
Entered(ac, h, r) ==
    /\ alert_config' = ac
    /\ http' = h
    /\ request' = RequestOf(ac["start_date"], ac["end_date"])
    /\ result' = IF r.raised THEN Unset ELSE r.v
    /\ result_str' = Unset
    /\ alert_name' = Unset
    /\ last_result_str' = Unset
    /\ message' = Unset
    /\ sent' = <<>>

\* lines 104-106 after fetch_resort_info gave r
Fetched(ac, h, r) ==
    /\ Entered(ac, h, r)
    /\ prior' = [same |-> result.t = "df" /\ alert_config = ac /\ http = h,
                  changed |-> result_str # Unset /\ last_result_str # Unset
                              /\ result_str # last_result_str,
                  sent |-> Len(sent), name |-> alert_name, str |-> result_str,
                  steady |-> steady]
    /\ IF r.raised THEN
            /\ Crash(r.exc)
            /\ printed' = <<>>
       ELSE IF r.v.t = "str" THEN
            /\ printed' = <<[kind |-> "error", text |-> r.v]>>
            /\ Return
       ELSE /\ printed' = <<>>
            /\ pc' = "detect"
            /\ UNCHANGED <<error, i, processed>>

\* lines 145-146 and 94-106: the next alert is checked, up to the fetch.
\* No request is made when the dates do not parse
FetchStep ==
    /\ pc = "for"
    /\ i <= Len(alerts)
    /\ LET ac == alerts[i]
       IN IF RequestOf(ac["start_date"], ac["end_date"]) = None
          THEN Fetched(ac, Unset, FetchFor(ac, Unset))
          ELSE \E h \in Responses : Fetched(ac, h, FetchFor(ac, h))
    /\ steady' = FALSE
    /\ UNCHANGED <<config, conn, written, undelivered, computed>>

\* a variant that dispatches before the string is stored
Detected_notify_first(rs, name, last, db) ==
    IF rs = last THEN
        /\ db = "ok"
        /\ Return
        /\ UNCHANGED <<conn, written, undelivered, message, printed>>
    ELSE IF db = "update fails" THEN
        /\ Crash("sqlite3.Error")
        /\ UNCHANGED <<conn, written, undelivered, message, printed>>
    ELSE IF ~IsEmpty(result) /\ HasPushover(alert_config) THEN
        /\ db = "ok"
        /\ message' = MessageOf(name, rs)
        /\ printed' = Append(printed, [kind |-> "found", text |-> MessageOf(name, rs)])
        /\ pc' = "send"
        /\ UNCHANGED <<conn, written, undelivered, error, i, processed>>
    ELSE
        /\ db = "ok"
        /\ conn' = update_last_result(conn, name, rs)
        /\ written' = [written EXCEPT ![name] = rs]
        /\ undelivered' = [undelivered EXCEPT ![name] = None]
        /\ printed' = Append(printed, IF ~IsEmpty(result)
                                      THEN [kind |-> "found", text |-> MessageOf(name, rs)]
                                      ELSE [kind |-> "none found",
                                            text |-> NoAvailabilityLine(name)])
        /\ message' = IF ~IsEmpty(result) THEN MessageOf(name, rs) ELSE message
        /\ Return

\* lines 116-127 apart from line 125, given the string and the stored value
Detected(rs, name, last, db) ==
    IF rs = last THEN
        /\ db = "ok"
        /\ Return
        /\ UNCHANGED <<conn, written, undelivered, message, printed>>
    ELSE IF db = "update fails" THEN
        /\ Crash("sqlite3.Error")
        /\ UNCHANGED <<conn, written, undelivered, message, printed>>
    ELSE
        /\ db = "ok"
        /\ conn' = update_last_result(conn, name, rs)
        /\ written' = [written EXCEPT ![name] = rs]
        /\ undelivered' = [undelivered EXCEPT ![name] = None]
        /\ IF ~IsEmpty(result) THEN
                /\ message' = MessageOf(name, rs)
                /\ printed' = Append(printed, [kind |-> "found", text |-> MessageOf(name, rs)])
                /\ IF HasPushover(alert_config)
                   THEN /\ pc' = "send"
                        /\ UNCHANGED <<error, i, processed>>
                   ELSE Return
           ELSE /\ printed' = Append(printed, [kind |-> "none found",
                                               text |-> NoAvailabilityLine(name)])
                /\ message' = message
                /\ Return

\* lines 108-127 apart from line 125: the result is compared with the stored
\* one and stored when it differs.  Either statement on the database may fail
DetectStep ==
    /\ pc = "detect"
    /\ LET rs == to_string(result)
           name == NameOf(alert_config)
       IN /\ result_str' = rs
          /\ alert_name' = name
          /\ computed' = [computed EXCEPT ![i] = rs]
          /\ steady' = (computed[i] = rs)
          /\ \E db \in {"ok", "select fails", "update fails"} :
                IF db = "select fails" THEN
                    /\ Crash("sqlite3.Error")
                    /\ UNCHANGED <<conn, written, undelivered, last_result_str, message,
                                   printed>>
                ELSE
                    /\ last_result_str' = fetch_last_result(conn, name)
                    /\ Detected(rs, name, fetch_last_result(conn, name), db)
    /\ UNCHANGED <<config, alert_config, http, request, result, sent, prior>>

\* lines 90-92
send_pushover_alert(msg, pushover_config) ==
    [message |-> msg, user_key |-> pushover_config.v["user_key"],
     api_token |-> pushover_config.v["api_token"],
     title |-> "DVC Availability Alert"]

\* line 125: the notification is dispatched.  The transport may raise, and the
\* service may answer without the notification getting through: the answer is
\* not looked at
SendStep ==
    /\ pc = "send"
    /\ sent' = Append(sent, send_pushover_alert(message, alert_config["pushover"]))
    /\ \E outcome \in {"delivered", "lost", "raises"} :
          /\ IF outcome = "raises" THEN Crash("pushover error") ELSE Return
          /\ undelivered' = IF outcome = "delivered" THEN undelivered
                            ELSE [undelivered EXCEPT ![alert_name] = result_str]
    /\ UNCHANGED <<config, conn, written, alert_config, http, request, result,
                   result_str, alert_name, last_result_str, message, printed, prior,
                   computed, steady>>

Next == WhileStep \/ FetchStep \/ DetectStep \/ SendStep \/ ForEnd \/ SleepStep

Spec == Init /\ [][Next]_vars

\* -------------------------------------------------- the filters on their own

\* fetch_resort_info is called for one alert on an answer of a service that
\* holds Entries
FilterInit ==
    /\ config \in {[alerts |-> <<a>>] : a \in Filtered}
    /\ conn = initialize_db
    /\ pc = "filter"
    /\ i = 1
    /\ error = "none"
    /\ alert_config = Unset
    /\ http = Unset
    /\ request = Unset
    /\ result = Unset
    /\ result_str = Unset
    /\ alert_name = Unset
    /\ last_result_str = Unset
    /\ message = Unset
    /\ sent = <<>>
    /\ printed = <<>>
    /\ prior = [same |-> FALSE, changed |-> FALSE, sent |-> 0, name |-> Unset,
                str |-> Unset, steady |-> FALSE]
    /\ written = [n \in Names |-> None]
    /\ processed = <<>>
    /\ undelivered = [n \in Names |-> None]
    /\ computed = [k \in 1..Len(alerts) |-> Unset]
    /\ steady = FALSE

FilterCall ==
    /\ pc = "filter"
    /\ \E h \in ResponsesOver(Entries) :
          LET r == FetchFor(alerts[1], h)
          IN /\ Entered(alerts[1], h, r)
             /\ error' = IF r.raised THEN r.exc ELSE "none"
    /\ pc' = "filtered"
    /\ UNCHANGED <<config, conn, i, printed, prior, written, processed, undelivered,
                   computed, steady>>

FilterSpec == FilterInit /\ [][FilterCall]_vars

\* ---------------------------------------------------------------- claims

\* the call has read the stored value (line 113)
Compared == result_str # Unset /\ last_result_str # Unset

\* the call found the result changed (line 116)
Changed == Compared /\ result_str # last_result_str

\* the process ended on a database error
StoreFailed == pc = "crashed" /\ error = "sqlite3.Error"

NoRows == Len(result.rows) = 0

\* what pandas prints for a frame without rows
EmptyRepr ==
    Str(<< <<<<"Empty DataFrame">>>>,
           <<<<"Columns:">>, <<"ResortName">>, <<"RoomType">>, <<"ViewType">>,
             <<"Points">>, <<"Availability">>>>,
           <<<<"Index: []">>>> >>)

\* C1: a check that follows a check of the same alert with identical fetched
\* data finds no change: it dispatches nothing and does not write the store,
\* so that the two checks make one dispatch in all when the first one found a
\* changed, non-empty result for an alert with credentials.
C1_SecondRunIdle ==
    /\ [](prior.same /\ Compared =>
            /\ result_str = last_result_str
            /\ sent = <<>>
            /\ pc # "send"
            /\ (prior.changed /\ ~NoRows /\ "pushover" \in DOMAIN alert_config
                    => prior.sent + Len(sent) = 1))
    /\ [][prior.same /\ pc = "detect" => conn' = conn /\ written' = written]_vars

C1_Witness ==
    /\ pc = "for"
    /\ prior.same /\ prior.changed /\ prior.sent = 1
    /\ Compared
    /\ ~NoRows

\* C2: when a check computes a non-empty result whose string differs from the
\* stored value (or nothing is stored) and the alert has credentials, and the
\* database does not fail, the alert's row holds the new string and the call
\* makes exactly one dispatch, whose message carries the alert name and the new
\* string.  (At line 125 the row is written and the dispatch is still to come.)
C2_ChangeNotified ==
    (Changed /\ ~NoRows /\ "pushover" \in DOMAIN alert_config /\ ~StoreFailed) =>
        /\ fetch_last_result(conn, alert_name) = result_str
        /\ IF pc = "send" THEN sent = <<>>
           ELSE /\ Len(sent) = 1
                /\ sent[1].message[2] = NameOf(alert_config)
                /\ sent[1].message[4] = result_str

\* the third cycle of r1, r1, r1 and one more record
C2_Witness ==
    /\ pc = "for"
    /\ Changed
    /\ last_result_str.t = "str" /\ last_result_str # EmptyRepr
    /\ Len(result.rows) = 2
    /\ Len(sent) = 1

\* C3: when the filtered result is empty and its string differs from the stored
\* value (or nothing is stored), and the database does not fail, the call
\* dispatches nothing, prints the no-availability line and leaves the row
\* holding the representation of the empty frame.
C3_EmptyNotNotified ==
    (Changed /\ NoRows /\ ~StoreFailed) =>
        /\ sent = <<>>
        /\ pc # "send"
        /\ fetch_last_result(conn, alert_name) = EmptyRepr
        /\ printed # <<>>
        /\ printed[Len(printed)].kind = "none found"

\* the result before was not empty
C3_Witness ==
    /\ pc = "for"
    /\ Changed /\ NoRows
    /\ last_result_str.t = "str"
    /\ "pushover" \in DOMAIN alert_config

\* C4: a call for an alert without a pushover key never dispatches, and when
\* it finds the result changed (and the database does not fail) the alert's
\* row holds the new string.
C4_NoCredentialsNoDispatch ==
    (alert_config # Unset /\ "pushover" \notin DOMAIN alert_config) =>
        /\ sent = <<>>
        /\ pc # "send"
        /\ (Changed /\ ~StoreFailed => fetch_last_result(conn, alert_name) = result_str)

C4_Witness ==
    /\ pc = "for"
    /\ "pushover" \notin DOMAIN alert_config
    /\ Changed /\ ~NoRows
    /\ last_result_str.t = "str"
    /\ fetch_last_result(conn, alert_name) = result_str

\* C5: no failure of an alert's pipeline (the fetch raising, a malformed
\* response, a database error, a dispatch error) ends the process: each is
\* caught, and the loop goes on.
C5_FailuresCaught ==
    ~(/\ pc = "crashed"
      /\ error \in {"ConnectionError", "JSONDecodeError", "AttributeError",
                    "KeyError", "sqlite3.Error", "pushover error"})

IllFormed == {NoSuchDay, WrongFormat}

\* the dates are text and the first that is parsed is no date
BadDateText(ac) ==
    \/ ac["start_date"] \in IllFormed
    \/ ac["start_date"] = Arrival /\ ac["end_date"] \in IllFormed

\* C6: when the dates of the alert being checked are text that is no
\* YYYY-MM-DD date, or the service answers with a status other than 200, the
\* call prints the failure and returns: the store is neither read nor changed,
\* nothing is dispatched, and the loop is at the next alert.
C6_FailedFetchSkipped ==
    [][(/\ pc = "for"
        /\ i <= Len(alerts)
        /\ \/ BadDateText(alerts[i])
           \/ /\ http' # Unset
              /\ http'.kind = "response"
              /\ http'.status_code # 200)
       => /\ conn' = conn
          /\ written' = written
          /\ last_result_str' = Unset
          /\ sent' = <<>>
          /\ Len(printed') = 1
          /\ printed'[1].kind = "error"
          /\ pc' = "for"
          /\ i' = i + 1]_vars

\* the first alert has bad dates, the second was answered with a 500, and a
\* row stored in an earlier cycle is there
C6_Witness ==
    /\ pc = "for"
    /\ i = 3
    /\ BadDateText(alerts[1])
    /\ result.t = "str"
    /\ http # Unset
    /\ conn # {}

\* the entries of the fetched JSON object
Fetched_entries == http.json.v

StatusIsFull(entry) ==
    /\ "Availability" \in DOMAIN entry
    /\ Get(entry["Availability"].v, "availability", None) = Str(Full)

\* C7: whatever the optional filters, every row fetch_resort_info returns has
\* the status Full, and no fetched entry with another status, or none, is
\* among them.
C7_OnlyFullKept ==
    result.t = "df" =>
        /\ \A k \in 1..Len(result.rows) : result.rows[k]["Availability"] = Str(Full)
        /\ \A k \in 1..Len(Fetched_entries) :
              ~StatusIsFull(Fetched_entries[k])
                  => RowOf(Fetched_entries[k]) \notin Range(result.rows)

C7_Witness ==
    /\ pc = "filtered"
    /\ result.t = "df"
    /\ Len(result.rows) >= 1
    /\ \E k \in 1..Len(Fetched_entries) : ~StatusIsFull(Fetched_entries[k])
    /\ \E k \in 1..Len(Fetched_entries) :
          "Availability" \notin DOMAIN Fetched_entries[k]
    /\ Truthy(Get(alert_config, "room_type", None))
    /\ Truthy(Get(alert_config, "exclude_non_wdw", None))
    /\ Truthy(Get(alert_config, "resort_names", None))

Without(d, k) == [x \in DOMAIN d \ {k} |-> d[x]]

\* what the call returns for the same alert without one of the two filters
OnlyExclusion == FetchFor(Without(alert_config, "resort_names"), http).v
OnlyInclusion == FetchFor(Without(alert_config, "exclude_non_wdw"), http).v

\* the rows of a that are rows of b, in the order of a
Intersection(a, b) == SelectSeq(a.rows, LAMBDA r : r \in Range(b.rows))

\* C8: the rows returned with the exclusion filter and the inclusion filter
\* both in force are those returned with the exclusion filter alone that are
\* also returned with the inclusion filter alone.
C8_BothIsIntersection ==
    result.t = "df" =>
        /\ result.rows = Intersection(OnlyExclusion, OnlyInclusion)
        /\ result.rows = Intersection(OnlyInclusion, OnlyExclusion)

\* both filters are set, and each alone keeps a row the other drops
C8_Witness ==
    /\ pc = "filtered"
    /\ result.t = "df"
    /\ Truthy(Get(alert_config, "exclude_non_wdw", None))
    /\ Truthy(Get(alert_config, "resort_names", None))
    /\ Len(result.rows) >= 1
    /\ Len(OnlyExclusion.rows) > Len(result.rows)
    /\ Len(OnlyInclusion.rows) > Len(result.rows)

\* C9: for every name, fetch_last_result returns the string update_last_result
\* was last called with for that name, whether that call made the row or
\* overwrote it, and None when it was never called for that name.
C9_StoreRoundTrip ==
    \A n \in Names : fetch_last_result(conn, n) = written[n]

\* a row was overwritten, another was made, and a name was never written
C9_Witness ==
    /\ pc = "for"
    /\ Changed
    /\ last_result_str.t = "str"
    /\ Cardinality(conn) = 2
    /\ \E n \in Names : written[n] = None

\* C10: the table never holds two rows with one alert name, and no step takes
\* a name out of it.
C10_OneRowPerName ==
    /\ [](\A r1, r2 \in conn : r1.alert_name = r2.alert_name => r1 = r2)
    /\ [][{r.alert_name : r \in conn} \subseteq {r.alert_name : r \in conn'}]_vars

\* both alerts of a configuration have a row, and one was stored twice
C10_Witness ==
    /\ pc = "sleep"
    /\ Cardinality({r.alert_name : r \in conn}) = 2
    /\ Changed
    /\ last_result_str.t = "str"

\* the checks of a cycle so far are those of the first alerts of the
\* configuration, in its order; the check under way is of the next one; and
\* the sleep follows the check of the last
CycleInOrder ==
    /\ processed = SubSeq(alerts, 1, Len(processed))
    /\ pc \in {"detect", "send"} => alert_config = alerts[Len(processed) + 1]
    /\ pc = "sleep" => processed = alerts

\* C11: in every cycle each configured alert is checked once, in the order of
\* the configuration and one at a time, each check returning before the next
\* begins; the sleep comes only after the last of them; and the loop has no
\* end of its own.
C11_EveryAlertEachCycle ==
    /\ CycleInOrder
    /\ pc # "crashed"

\* C12: the changed string is stored before the notification is dispatched:
\* when a notification is about to be dispatched, while it is dispatched and
\* after, the row of the alert's name holds the result string that the
\* message carries.
C12_PersistBeforeNotify ==
    /\ [](pc = "send" => /\ fetch_last_result(conn, alert_name) = result_str
                         /\ message[4] = result_str)
    /\ [][pc = "send" => /\ Len(sent') = Len(sent) + 1
                         /\ fetch_last_result(conn, alert_name)
                                = sent'[Len(sent')].message[4]]_vars
    /\ [](\A k \in 1..Len(sent) :
            fetch_last_result(conn, alert_name) = sent[k].message[4])

\* a notification was dispatched for a string that replaced a stored one
C12_Witness ==
    /\ pc = "for"
    /\ Len(sent) = 1
    /\ last_result_str.t = "str"
    /\ last_result_str # sent[1].message[4]
    /\ fetch_last_result(conn, alert_name) = sent[1].message[4]

\* the frame of line 68, before any filter
Unfiltered == DataFrame([k \in 1..Len(Fetched_entries) |-> RowOf(Fetched_entries[k])])

\* the four filters of lines 71-86 with the settings of alert ac, by number
FilterNo(k, df, ac) ==
    CASE k = 1 -> FilterAvailability(df)
      [] k = 2 -> FilterRoomType(df, Get(ac, "room_type", None))
      [] k = 3 -> FilterExclude(df, Get(ac, "exclude_non_wdw", Bool(FALSE)))
      [] k = 4 -> FilterResortName(df, Get(ac, "resort_names", None))

\* the four applied in the order q
FilteredIn(q, df, ac) ==
    FilterNo(q[4], FilterNo(q[3], FilterNo(q[2], FilterNo(q[1], df, ac), ac), ac), ac)

\* the 24 orders
Orders == {q \in [1..4 -> 1..4] : Range(q) = 1..4}

\* a can be had from b by leaving members out
RECURSIVE IsSubsequence(_, _)
IsSubsequence(a, b) ==
    IF a = <<>> THEN TRUE
    ELSE IF b = <<>> THEN FALSE
    ELSE IF Head(a) = Head(b) THEN IsSubsequence(Tail(a), Tail(b))
    ELSE IsSubsequence(a, Tail(b))

\* C13: the rows fetch_resort_info returns are a subsequence of the fetched
\* records, in the order they were fetched in, and they are the same rows in
\* the same order whichever order the four filters are applied in.
C13_OrderIndependent ==
    result.t = "df" =>
        /\ IsSubsequence(result.rows, Unfiltered.rows)
        /\ \A q \in Orders : FilteredIn(q, Unfiltered, alert_config).rows = result.rows

\* of three fetched records the first and the last are returned, with the
\* room filter and the inclusion filter both set
C13_Witness ==
    /\ pc = "filtered"
    /\ result.t = "df"
    /\ Len(Fetched_entries) = 3
    /\ result.rows = <<RowOf(Fetched_entries[1]), RowOf(Fetched_entries[3])>>
    /\ Truthy(Get(alert_config, "room_type", None))
    /\ Truthy(Get(alert_config, "resort_names", None))

\* C14: once a check has computed its string and compared it with the stored
\* one, and the store has taken the write, the row of the alert's name exists
\* and holds that string, the canonical string of the filtered result, also
\* on the first check and for an empty result; and the value under a name
\* changes only in a check of that name whose string differs from it.
C14_RowIsLastResult ==
    /\ [](Compared /\ ~StoreFailed =>
            /\ result_str = to_string(result)
            /\ fetch_last_result(conn, alert_name) = result_str)
    /\ [][\A n \in Names :
            fetch_last_result(conn', n) # fetch_last_result(conn, n) =>
                /\ pc = "detect"
                /\ n = NameOf(alert_config)
                /\ to_string(result) # fetch_last_result(conn, n)
                /\ fetch_last_result(conn', n) = to_string(result)]_vars

\* a first check with an empty result has returned and left its row
C14_Witness ==
    /\ pc = "for"
    /\ Compared
    /\ last_result_str = None
    /\ NoRows
    /\ result_str = EmptyRepr
    /\ fetch_last_result(conn, alert_name) = EmptyRepr

\* C15: a check of an alert named n leaves the rows of all other names as
\* they are, whatever its outcome; the only value it reads from the table is
\* the one stored under n; and no step outside a check changes the table.
C15_OtherRowsUntouched ==
    /\ [][\A r \in conn :
            (pc = "detect" /\ r.alert_name = NameOf(alert_config)) \/ r \in conn']_vars
    /\ [][\A r \in conn' :
            (pc = "detect" /\ r.alert_name = NameOf(alert_config)) \/ r \in conn]_vars
    /\ [][pc = "detect" /\ last_result_str' # Unset =>
            last_result_str' = fetch_last_result(conn, NameOf(alert_config))]_vars

\* a check replaced the string under its name while another name's row held
\* a different string
C15_Witness ==
    /\ pc = "for"
    /\ Changed
    /\ last_result_str.t = "str"
    /\ \E r \in conn : r.alert_name # alert_name /\ r.last_result # result_str
                                                 /\ r.last_result # last_result_str

\* C16: a check makes at most one dispatch attempt, and only for a change it
\* detected; the string whose dispatch did not get through is already the
\* stored one, so a later check under that name that computes it again sees
\* no change, writes nothing and makes no dispatch attempt.
C16_NoRetry ==
    /\ [](Len(sent) <= 1 /\ (Len(sent) = 1 => Changed))
    /\ [](\A n \in Names :
            undelivered[n] # None => fetch_last_result(conn, n) = undelivered[n])
    /\ [][pc = "detect" /\ undelivered[NameOf(alert_config)] = to_string(result)
            => /\ pc' \in {"for", "crashed"}
               /\ sent' = <<>>
               /\ conn' = conn
               /\ pc' = "for" => last_result_str' = to_string(result)]_vars

\* a dispatch did not get through, and a later check that computed the same
\* string has returned
C16_Witness ==
    /\ pc = "for"
    /\ Compared
    /\ undelivered[alert_name] = result_str
    /\ ~NoRows
    /\ "pushover" \in DOMAIN alert_config
    /\ sent = <<>>

\* two alerts are configured and both omit the name, or give the same one
SameKey ==
    /\ Len(alerts) = 2
    /\ Get(alerts[1], "name", Absent) = Get(alerts[2], "name", Absent)

\* C17: two alerts that omit the name both use the key "Unnamed", and two
\* with equal names share theirs: when the check before this one, of the
\* other alert, computed a different string, this check finds that string
\* stored, so it overwrites the row and, for a non-empty result with
\* credentials, dispatches again, also when its own result is the one it had
\* on its last check.
C17_SharedKeyRenotifies ==
    /\ alert_name # Unset /\ "name" \notin DOMAIN alert_config
            => alert_name = Text1("Unnamed")
    /\ SameKey /\ Compared /\ prior.str # Unset /\ prior.str # result_str =>
            /\ alert_name = prior.name
            /\ last_result_str = prior.str
            /\ Changed
            /\ ~StoreFailed =>
                  /\ fetch_last_result(conn, alert_name) = result_str
                  /\ ~NoRows /\ "pushover" \in DOMAIN alert_config
                        => pc = "send" \/ Len(sent) = 1

\* two alerts without a name: each computed the string of its last check, and
\* each stored it and dispatched it again
C17_Witness ==
    /\ pc = "for"
    /\ SameKey
    /\ "name" \notin DOMAIN alerts[1]
    /\ steady /\ Changed /\ Len(sent) = 1
    /\ prior.steady /\ prior.changed /\ prior.sent = 1
    /\ prior.str # result_str

=============================================================================
